---- MODULE Spec2Model ----
(***************************************************************************)
(* Chunk streaming and follow camera of src/main.js (the second program   *)
(* text of the file, lines 1262-3082: CHUNK_SIZE 32, CHUNK_RADIUS 1).     *)
(*                                                                         *)
(* Numbers are fixed point:                                                *)
(*   world lengths  in 1/1000 world unit  (PosScale)                       *)
(*   angles         in 1/10000 radian     (AngleScale)                     *)
(*   sines, cosines in 1/1000             (TrigScale)                      *)
(*   lerp factors   in 1/10000            (AlphaScale)                     *)
(*   frame time     in 1/60 second        (one unit = 1/60 s)              *)
(***************************************************************************)
EXTENDS Integers, FiniteSets, Sequences, TLC

VARIABLES
    playerReady,          \* let playerReady
    playTimers,           \* pending setTimeout(createCity ..., 1200) callbacks
    character,            \* TRUE when the character model is loaded (non-null)
    modelLoads,           \* GLTF loads of the character model in flight
    charX, charZ,         \* character.position.x / .z
    loadedChunks,         \* Map key -> tile (THREE.Group)
    cityChildren,         \* cityGroup.children
    disposeCount,         \* per referenced tile: how often it was disposed
    lastChunkX, lastChunkZ,
    isInGame, isPaused,
    isPointerLocked,      \* let isPointerLocked
    lockRequested,        \* requestPointerLock() called, browser has not answered
    skipNextMouseDelta,
    cameraYaw, cameraPitch, movementYaw,
    cameraFollowHeight, cameraFollowDistance,
    cameraPosition,       \* camera.position  <<x, y, z>>
    controlsTarget,       \* controls.target  <<x, y, z>>
    op,                   \* the handler that ran last
    event,                \* the arguments of that handler
    built,                \* keys for which that handler called buildCityChunk
    removed,              \* keys that handler deleted from loadedChunks
    dropped,              \* tiles that handler left unreferenced -> dispose count
    acquisitions          \* pointer locks acquired since the last mousemove
                          \* received under lock (counted up to MaxAcquisitions)

vars == <<playerReady, playTimers, character, modelLoads, charX, charZ,
          loadedChunks, cityChildren, disposeCount, lastChunkX, lastChunkZ,
          isInGame, isPaused, isPointerLocked, lockRequested,
          skipNextMouseDelta, cameraYaw, cameraPitch, movementYaw,
          cameraFollowHeight, cameraFollowDistance, cameraPosition,
          controlsTarget, op, event, built, removed, dropped, acquisitions>>

streamVars == <<loadedChunks, cityChildren, disposeCount, lastChunkX, lastChunkZ>>
orbitVars  == <<cameraYaw, cameraPitch>>
poseVars   == <<cameraPosition, controlsTarget>>
tuneVars   == <<cameraFollowHeight, cameraFollowDistance>>

-----------------------------------------------------------------------------
(* Scales of the fixed-point representation *)
PosScale   == 10 * 100
AngleScale == 100 * 100
TrigScale  == 10 * 100
AlphaScale == 100 * 100

(* Bounds of the explored state space *)
MaxWorld   == 48000       \* |charX|, |charZ| stay within this many 1/1000 units
MaxTimers  == 2           \* pending Play timeouts
MaxYaw     == 1080        \* |cameraYaw| explored, in 1/10000 rad
MaxLoads   == 1           \* character model loads in flight
EdgeWindow == 200         \* SpecEdge: |charX - nearest chunk edge| explored
MaxAcquisitions == 2      \* acquisitions counted in one run

(* Program constants *)
CHUNK_SIZE   == 32
CHUNK_RADIUS == 1
MOVE_SPEED   == 5
SPRINT_MULTIPLIER == 2
MAX_DELTA    == 30        \* const maxDelta = 30 (pixels per event cap)
POINTER_SENSITIVITY == 18 \* 0.0018 rad per pixel
PI_A         == 31416     \* Math.PI in 1/10000 rad
PITCH_MIN_DEG == -30
PITCH_MAX_DEG == 60
DEFAULT_CAMERA_PITCH_DEG == 23
CANCEL_PITCH_DEG == 23    \* const defPitchDeg = 23 of the cancel button
MIN_CAMERA_ABOVE_CHARACTER == 600
DEFAULT_CAMERA_FOLLOW_HEIGHT == 4250
DEFAULT_CAMERA_FOLLOW_DISTANCE == 8140
CHAR_Y       == 100       \* character.position.y = 0.1
DEFAULT_CAMERA_POS == <<0, 4500, 7400>>

Null    == <<>>           \* JavaScript null (lastChunkX = null)
Some(v) == <<v>>

-----------------------------------------------------------------------------
(* Arithmetic helpers *)
Abs(a) == IF a < 0 THEN -a ELSE a
Max(a, b) == IF a >= b THEN a ELSE b
Min(a, b) == IF a <= b THEN a ELSE b
RoundDiv(a, b) == (a + (b \div 2)) \div b     \* nearest, b > 0
Range(f) == {f[k] : k \in DOMAIN f}

(* The numbers that are not finite: NaN, Infinity and -Infinity, coded as *)
(* integers far outside the world.  Number.isFinite(x).                    *)
NaN      == 2 * 10^9
Infinity == 10^9
IsNaN(x) == x = NaN
IsInfinite(x) == x = Infinity \/ x = -Infinity
IsFiniteNumber(x) == ~IsNaN(x) /\ ~IsInfinite(x)
(* a === b for numbers: NaN equals nothing, not even itself *)
StrictEqualsLoose(a, b) == a = b
StrictEquals(a, b) == a = b /\ ~IsNaN(a)

(* Math.floor(x / size) for a length x in 1/1000 units and size in units; *)
(* floor(NaN) = NaN, floor(+-Infinity) = +-Infinity                        *)
MathFloorDivTrunc(x, size) ==
    IF x >= 0 THEN x \div (size * PosScale) ELSE -((-x) \div (size * PosScale))
MathFloorDiv(x, size) ==
    IF IsFiniteNumber(x) THEN x \div (size * PosScale) ELSE x

(* worldToChunk(x, z) *)
worldToChunkAtCamera(x, z) ==
    [cx |-> MathFloorDiv(cameraPosition[1], CHUNK_SIZE),
     cz |-> MathFloorDiv(cameraPosition[3], CHUNK_SIZE)]
worldToChunk(x, z) ==
    [cx |-> MathFloorDiv(x, CHUNK_SIZE), cz |-> MathFloorDiv(z, CHUNK_SIZE)]

(* The key `${x},${z}` of a chunk: one key per integer pair *)
chunkKey(x, z) == <<x, z>>

(* The keys added to `needed` by the double loop of updateCityStreaming *)
NeededKeysNoCorner(cx, cz) ==
    {chunkKey(x, z) : x \in (cx - CHUNK_RADIUS)..(cx + CHUNK_RADIUS),
                      z \in (cz - CHUNK_RADIUS)..(cz + CHUNK_RADIUS - 1)}
(* the values x takes in for (x = c - R; x <= c + R; x++): none for NaN  *)
(* (NaN <= NaN is false); for +-Infinity x stays c and the loop never ends *)
LoopValues(c) ==
    IF IsNaN(c) THEN {}
    ELSE IF IsInfinite(c) THEN {c}
    ELSE (c - CHUNK_RADIUS)..(c + CHUNK_RADIUS)
NeededKeys(cx, cz) ==
    {chunkKey(x, z) : x \in LoopValues(cx), z \in LoopValues(cz)}
(* the double loop never ends: the outer for an infinite cx, the inner,    *)
(* entered when cx is a number, for an infinite cz                         *)
LoopHangs(cx, cz) == IsInfinite(cx) \/ (~IsNaN(cx) /\ IsInfinite(cz))
(* the keys the double loop visits when it never ends *)
KeysBeforeHang(cx, cz) ==
    IF IsInfinite(cx) THEN NeededKeys(cx, cz)
    ELSE {chunkKey(cx - CHUNK_RADIUS, cz)}

(* The keys of the initial loop of createCity: for x,z = -1..1 *)
InitialKeys == {chunkKey(x, z) : x \in (-1)..1, z \in (-1)..1}

(* A tile object.  Objects of one coordinate are told apart by a serial;  *)
(* buildCityChunk returns an object different from every object that is   *)
(* still referenced (live).                                                *)
Tile(k, s) == [key |-> k, serial |-> s]
buildCityChunk(k, live) ==
    Tile(k, CHOOSE s \in 0..Cardinality(live) :
                /\ Tile(k, s) \notin live
                /\ \A t \in 0..(s - 1) : Tile(k, t) \in live)

(* disposeCount after disposing the tiles of `gone`, kept for `refs` *)
DisposedNothing(cnt, gone, refs) ==
    [t \in refs |-> IF t \in DOMAIN cnt THEN cnt[t] ELSE 0]
Disposed(cnt, gone, refs) ==
    [t \in refs |-> (IF t \in DOMAIN cnt THEN cnt[t] ELSE 0)
                    + (IF t \in gone THEN 1 ELSE 0)]

-----------------------------------------------------------------------------
(* What a handler leaves of the streaming state: the table, the children   *)
(* of cityGroup, the dispose counts of the tiles still referenced from     *)
(* either, the counts of the tiles no longer referenced (dropped), the     *)
(* table between the two loops of updateCityStreaming (mid), and the keys  *)
(* built and removed.                                                      *)
Outcome(tbl, kids, cntAll, lx, lz, mid, blt, rem) ==
    LET refs == Range(tbl) \cup kids
    IN  [loadedChunks |-> tbl, cityChildren |-> kids,
         disposeCount |-> [t \in refs |-> cntAll[t]],
         dropped |-> [t \in DOMAIN cntAll \ refs |-> cntAll[t]],
         lastChunkX |-> lx, lastChunkZ |-> lz,
         mid |-> mid, built |-> blt, removed |-> rem]

(* if (cx === lastChunkX && cz === lastChunkZ && loadedChunks.size > 0) return *)
StreamingEarlyExitNonEmpty(same, size) == size > 0
StreamingEarlyExit(same, size) == same /\ size > 0

(* the keys the unload loop deletes: if (!needed.has(key)) *)
StaleKeysNone(tbl, needed) == {}
StaleKeysButOne(tbl, needed) ==
    LET stale == {k \in DOMAIN tbl : k \notin needed}
    IN  IF stale = {} THEN {} ELSE stale \ {CHOOSE k \in stale : TRUE}
StaleKeys(tbl, needed) == {k \in DOMAIN tbl : k \notin needed}

(* the keys the load loop builds: if (!loadedChunks.has(key)) *)
MissingKeysAll(tbl, needed) == needed
MissingKeys(tbl, needed) == {k \in needed : k \notin DOMAIN tbl}

(* updateCityStreaming(), as a function of the state it reads *)
updateCityStreamingRebuild(px, pz, tbl, kids, cnt, lx, lz) ==
    LET c      == worldToChunk(px, pz)
        needed == NeededKeys(c.cx, c.cz)
        gone   == Range(tbl)
        fresh  == [k \in needed |-> buildCityChunk(k, gone \cup kids)]
    IN  Outcome(fresh, (kids \ gone) \cup Range(fresh),
                Disposed(cnt, gone, DOMAIN cnt \cup Range(fresh)),
                Some(c.cx), Some(c.cz), fresh, needed, DOMAIN tbl)
updateCityStreamingSameColumn(px, pz, tbl, kids, cnt, lx, lz) ==
    LET c == worldToChunk(px, pz)
        same == lx # Null /\ StrictEquals(c.cx, lx[1])
    IN  IF StreamingEarlyExit(same, Cardinality(DOMAIN tbl))
        THEN Outcome(tbl, kids, cnt, lx, lz, tbl, {}, {})
        ELSE
        LET needed  == NeededKeys(c.cx, c.cz)
            missing == MissingKeys(tbl, needed)
            live    == Range(tbl) \cup kids
            fresh   == [k \in missing |-> buildCityChunk(k, live)]
            mid     == [k \in DOMAIN tbl \cup missing |->
                           IF k \in missing THEN fresh[k] ELSE tbl[k]]
            stale   == StaleKeys(mid, needed)
            gone    == {mid[k] : k \in stale}
        IN  Outcome([k \in DOMAIN mid \ stale |-> mid[k]],
                    (kids \cup Range(fresh)) \ gone,
                    Disposed(cnt, gone, DOMAIN cnt \cup Range(fresh)),
                    Some(c.cx), Some(c.cz), mid, missing, stale)
updateCityStreamingEvictFirst(px, pz, tbl, kids, cnt, lx, lz) ==
    LET c == worldToChunk(px, pz)
        same == /\ lx # Null /\ StrictEquals(c.cx, lx[1])
                /\ lz # Null /\ StrictEquals(c.cz, lz[1])
    IN  IF StreamingEarlyExit(same, Cardinality(DOMAIN tbl))
        THEN Outcome(tbl, kids, cnt, lx, lz, tbl, {}, {})
        ELSE
        LET needed  == NeededKeys(c.cx, c.cz)
            stale   == StaleKeys(tbl, needed)
            gone    == {tbl[k] : k \in stale}
            mid     == [k \in DOMAIN tbl \ stale |-> tbl[k]]
            missing == MissingKeys(mid, needed)
            fresh   == [k \in missing |-> buildCityChunk(k, Range(tbl) \cup kids)]
            final   == [k \in DOMAIN mid \cup missing |->
                           IF k \in missing THEN fresh[k] ELSE mid[k]]
        IN  Outcome(final, (kids \ gone) \cup Range(fresh),
                    Disposed(cnt, gone, DOMAIN cnt \cup Range(fresh)),
                    Some(c.cx), Some(c.cz), mid, missing, stale)
updateCityStreaming(px, pz, tbl, kids, cnt, lx, lz) ==
    LET c == worldToChunk(px, pz)
        same == /\ lx # Null /\ StrictEquals(c.cx, lx[1])
                /\ lz # Null /\ StrictEquals(c.cz, lz[1])
    IN  IF StreamingEarlyExit(same, Cardinality(DOMAIN tbl))
        THEN Outcome(tbl, kids, cnt, lx, lz, tbl, {}, {})
        ELSE
        LET needed  == NeededKeys(c.cx, c.cz)
            missing == MissingKeys(tbl, needed)
            live    == Range(tbl) \cup kids
            fresh   == [k \in missing |-> buildCityChunk(k, live)]
            mid     == [k \in DOMAIN tbl \cup missing |->
                           IF k \in missing THEN fresh[k] ELSE tbl[k]]
            midKids == kids \cup Range(fresh)
            stale   == StaleKeys(mid, needed)
            gone    == {mid[k] : k \in stale}
            final   == [k \in DOMAIN mid \ stale |-> mid[k]]
            endKids == midKids \ gone
        IN  Outcome(final, endKids,
                    Disposed(cnt, gone, DOMAIN cnt \cup Range(fresh)),
                    Some(c.cx), Some(c.cz), mid, missing, stale)

(* updateCityStreaming() when its double loop never ends: the memo is set, *)
(* the missing chunks among the visited keys are built, nothing is removed *)
updateCityStreamingHang(px, pz, tbl, kids, cnt) ==
    LET c       == worldToChunk(px, pz)
        missing == MissingKeys(tbl, KeysBeforeHang(c.cx, c.cz))
        fresh   == [k \in missing |-> buildCityChunk(k, Range(tbl) \cup kids)]
        mid     == [k \in DOMAIN tbl \cup missing |->
                       IF k \in missing THEN fresh[k] ELSE tbl[k]]
    IN  Outcome(mid, kids \cup Range(fresh),
                Disposed(cnt, {}, DOMAIN cnt \cup Range(fresh)),
                Some(c.cx), Some(c.cz), mid, missing, {})

(* The city part of createCity(): dispose and pop every child of          *)
(* cityGroup, clear the table and the memo, build the initial chunks.      *)
CreateCityNoClear(tbl, kids, cnt) ==
    LET missing == MissingKeys(tbl, InitialKeys)
        fresh   == [k \in missing |-> buildCityChunk(k, Range(tbl))]
        final   == [k \in DOMAIN tbl \cup missing |->
                       IF k \in missing THEN fresh[k] ELSE tbl[k]]
    IN  Outcome(final, Range(fresh),
                Disposed(cnt, kids, DOMAIN cnt \cup Range(fresh)),
                Null, Null, final, missing, {})
CreateCityChunks(tbl, kids, cnt) ==
    LET fresh == [k \in InitialKeys |-> buildCityChunk(k, {})]
    IN  [loadedChunks |-> fresh, cityChildren |-> Range(fresh),
         disposeCount |-> [t \in Range(fresh) |-> 0],
         dropped |-> Disposed(cnt, kids, DOMAIN cnt),
         lastChunkX |-> Null, lastChunkZ |-> Null,
         mid |-> fresh, built |-> InitialKeys, removed |-> DOMAIN tbl]

(* The city part of returnToLobby(): dispose and pop every child of       *)
(* cityGroup.  loadedChunks, lastChunkX and lastChunkZ are not touched.    *)
ReturnToLobbyKeepsChildren(tbl, kids, cnt, lx, lz) ==
    Outcome(tbl, kids, Disposed(cnt, kids, DOMAIN cnt), lx, lz, tbl, {}, {})
ReturnToLobbyChunks(tbl, kids, cnt, lx, lz) ==
    Outcome(tbl, {}, Disposed(cnt, kids, DOMAIN cnt), lx, lz, tbl, {}, {})

-----------------------------------------------------------------------------
(* Trigonometry: Math.sin and Math.cos of an angle in 1/10000 rad, in     *)
(* 1/1000, by Bhaskara's rational approximation on [0, pi] (error below    *)
(* 0.002), extended by symmetry and period.                                *)
PiM == RoundDiv(PI_A, 10)                       \* pi in 1/1000 rad
SinHalfTurn(m) ==                               \* m in 0..PiM, 1/1000 rad
    LET p == m * (PiM - m)
    IN  (16 * p) \div ((5 * PiM * PiM - 4 * p) \div TrigScale)
WrapTurn(a) == ((a + PI_A) % (2 * PI_A)) - PI_A \* into [-pi, pi)
Sin(a) ==
    LET r == WrapTurn(a)
        m == Min(PiM, Abs(r) \div 10)
    IN  IF r < 0 THEN -SinHalfTurn(m) ELSE SinHalfTurn(m)
Cos(a) == Sin(a + (PI_A \div 2))

(* deg * Math.PI / 180 *)
DegToRad(deg) == RoundDiv(deg * PI_A, 180)

minPitch == DegToRad(PITCH_MIN_DEG)
maxPitch == DegToRad(PITCH_MAX_DEG)

(* clampNumber(value, min, max) = Math.min(max, Math.max(min, value)) *)
clampNumber(value, min, max) == Min(max, Max(min, value))

(* angleDelta(current, target): the while loops that bring target-current *)
(* into [-pi, pi]                                                          *)
RECURSIVE WrapDelta(_)
WrapDelta(d) ==
    IF d > PI_A THEN WrapDelta(d - 2 * PI_A)
    ELSE IF d < -PI_A THEN WrapDelta(d + 2 * PI_A)
    ELSE d
angleDeltaNoWrap(current, target) == target - current
angleDelta(current, target) == WrapDelta(target - current)

(* smoothAngleTowards(current, target, alpha), alpha in 1/100 *)
smoothAngleTowards(current, target, alpha) ==
    current + RoundDiv(angleDelta(current, target) * Min(100, Max(0, alpha)), 100)

(* Math.pow(base, e) for base in 1/10000 and a whole exponent e >= 1 *)
RECURSIVE PowFrac(_, _)
PowFrac(base, e) ==
    IF e = 0 THEN AlphaScale
    ELSE IF e % 2 = 0
         THEN LET h == PowFrac(base, e \div 2) IN (h * h) \div AlphaScale
         ELSE (base * PowFrac(base, e - 1)) \div AlphaScale

(* const baseAlpha = isPointerLocked ? 0.22 : 0.16;                        *)
(* const alpha = 1 - Math.pow(1 - baseAlpha, Math.max(0.0001, delta) * 60) *)
(* for delta = k/60 s.  For k = 0 the exponent is 0.006:                   *)
(* 0.84^0.006 = 0.99895, 0.78^0.006 = 0.99851.                             *)
SmoothingAlphaNoEpsilon(k, locked) ==
    IF k <= 0 THEN 0
    ELSE AlphaScale - PowFrac(AlphaScale - (IF locked THEN 2200 ELSE 1600), k)
SmoothingAlpha(k, locked) ==
    LET keep == AlphaScale - (IF locked THEN 2200 ELSE 1600)
    IN  IF k <= 0
        THEN AlphaScale - (IF locked THEN 9985 ELSE 9990)
        ELSE AlphaScale - PowFrac(keep, k)

(* Vector3.lerp(v, alpha): this.x += (v.x - this.x) * alpha, per axis *)
LerpAxisSwapped(x, v, alpha) == v + RoundDiv((x - v) * alpha, AlphaScale)
LerpAxis(x, v, alpha) == x + RoundDiv((v - x) * alpha, AlphaScale)
Lerp(p, v, alpha) ==
    <<LerpAxis(p[1], v[1], alpha), LerpAxis(p[2], v[2], alpha),
      LerpAxis(p[3], v[3], alpha)>>

(* desiredCameraPos of updateCharacterMovement *)
CameraOffsetYNoFloor(height, dist, pitch) ==
    height + RoundDiv(dist * Sin(pitch), TrigScale)
CameraOffsetY(height, dist, pitch) ==
    Max(MIN_CAMERA_ABOVE_CHARACTER, height + RoundDiv(dist * Sin(pitch), TrigScale))
DesiredCameraPos(px, pz, yaw, pitch, height, dist) ==
    LET flat == RoundDiv(dist * Cos(pitch), TrigScale)
    IN  <<px + RoundDiv(Sin(yaw) * (-flat), TrigScale),
          CHAR_Y + CameraOffsetY(height, dist, pitch),
          pz + RoundDiv(Cos(yaw) * (-flat), TrigScale)>>

(* the look-at target: character.position + (0, max(1.0, 0.4 * height), 0) *)
DesiredTarget(px, pz, height) ==
    <<px, CHAR_Y + Max(PosScale, (height * 4) \div 10), pz>>

(* The displacement of one frame: keys is the set of keys held down, yaw   *)
(* the filtered yaw, k the frame time in 1/60 s.                           *)
Movement(keys, yaw, k) ==
    LET fwd   == (IF "w" \in keys THEN 1 ELSE 0) - (IF "s" \in keys THEN 1 ELSE 0)
        side  == (IF "a" \in keys THEN 1 ELSE 0) - (IF "d" \in keys THEN 1 ELSE 0)
        mx    == fwd * Sin(yaw) + side * Cos(yaw)
        mz    == fwd * Cos(yaw) - side * Sin(yaw)
        unit  == IF fwd # 0 /\ side # 0 THEN 707 ELSE TrigScale
        speed == MOVE_SPEED *
                 (IF "shift" \in keys /\ "w" \in keys THEN SPRINT_MULTIPLIER ELSE 1)
    IN  IF fwd = 0 /\ side = 0 THEN <<0, 0>>
        ELSE <<RoundDiv(RoundDiv(mx * unit, TrigScale) * speed * k, 60),
               RoundDiv(RoundDiv(mz * unit, TrigScale) * speed * k, 60)>>

-----------------------------------------------------------------------------
(* The state after init(): lobby, character model still loading *)
NoTiles == [t \in {} |-> 0]

Init ==
    /\ playerReady = TRUE
    /\ playTimers = 0
    /\ character = FALSE
    /\ modelLoads = 1
    /\ charX = 0 /\ charZ = 0
    /\ loadedChunks = [k \in {} |-> 0]
    /\ cityChildren = {}
    /\ disposeCount = NoTiles
    /\ lastChunkX = Null /\ lastChunkZ = Null
    /\ isInGame = FALSE /\ isPaused = FALSE
    /\ isPointerLocked = FALSE /\ lockRequested = FALSE
    /\ skipNextMouseDelta = FALSE
    /\ cameraYaw = 0
    /\ cameraPitch = DegToRad(DEFAULT_CAMERA_PITCH_DEG)
    /\ movementYaw = 0
    /\ cameraFollowHeight = DEFAULT_CAMERA_FOLLOW_HEIGHT
    /\ cameraFollowDistance = DEFAULT_CAMERA_FOLLOW_DISTANCE
    /\ cameraPosition = DEFAULT_CAMERA_POS
    /\ controlsTarget = <<0, PosScale, 0>>
    /\ op = "init" /\ event = <<>>
    /\ built = {} /\ removed = {} /\ dropped = NoTiles
    /\ acquisitions = 0

(* the run of acquisitions grows with every lock acquired and ends with    *)
(* the first mousemove the handler receives while the pointer is locked    *)
Acquired(name) ==
    IF name = "lock" THEN Min(acquisitions + 1, MaxAcquisitions)
    ELSE IF name = "mousemove" /\ isPointerLocked THEN 0
    ELSE acquisitions

(* a handler that calls none of the streaming code *)
DidWith(name, args) ==
    /\ op' = name /\ event' = args
    /\ built' = {} /\ removed' = {} /\ dropped' = NoTiles
    /\ acquisitions' = Acquired(name)
Did(name) == DidWith(name, <<>>)

(* a handler that leaves the streaming state as the record r says *)
Streamed(name, r) ==
    \E o \in {r} :
        /\ loadedChunks' = o.loadedChunks
        /\ cityChildren' = o.cityChildren
        /\ disposeCount' = o.disposeCount
        /\ lastChunkX' = o.lastChunkX
        /\ lastChunkZ' = o.lastChunkZ
        /\ op' = name /\ event' = <<>>
        /\ built' = o.built /\ removed' = o.removed
        /\ dropped' = o.dropped
        /\ acquisitions' = Acquired(name)

(* handleLoadedModel: the GLTF load of the character completes *)
LoadCharacter ==
    /\ modelLoads > 0
    /\ modelLoads' = modelLoads - 1
    /\ character' = TRUE
    /\ charX' = 0 /\ charZ' = 0
    /\ cameraPosition' = DEFAULT_CAMERA_POS
    /\ controlsTarget' = <<0, PosScale, 0>>
    /\ Did("load")
    /\ UNCHANGED <<playerReady, playTimers, streamVars, isInGame, isPaused,
                   isPointerLocked, lockRequested, skipNextMouseDelta,
                   orbitVars, movementYaw, tuneVars>>

(* reload-model button: drop the character and load it again *)
ReloadModel ==
    /\ modelLoads < MaxLoads
    /\ modelLoads' = modelLoads + 1
    /\ character' = FALSE
    /\ Did("reload")
    /\ UNCHANGED <<playerReady, playTimers, charX, charZ, streamVars, isInGame,
                   isPaused, isPointerLocked, lockRequested, skipNextMouseDelta,
                   orbitVars, movementYaw, tuneVars, poseVars>>

(* ready-btn click (the lobby is on screen while not in game) *)
ReadyClick ==
    /\ ~isInGame
    /\ playerReady' = ~playerReady
    /\ Did("ready")
    /\ UNCHANGED <<playTimers, character, modelLoads, charX, charZ, streamVars,
                   isInGame, isPaused, isPointerLocked, lockRequested,
                   skipNextMouseDelta, orbitVars, movementYaw, tuneVars, poseVars>>

(* play-btn click: not ready -> popup only; ready -> setTimeout(..., 1200) *)
PlayGateOpen(ready) == TRUE
PlayGate(ready) == ready
PlayClick ==
    /\ ~isInGame
    /\ PlayGate(playerReady) => playTimers < MaxTimers
    /\ playTimers' = IF PlayGate(playerReady) THEN playTimers + 1 ELSE playTimers
    /\ Did("play")
    /\ UNCHANGED <<playerReady, character, modelLoads, charX, charZ, streamVars,
                   isInGame, isPaused, isPointerLocked, lockRequested,
                   skipNextMouseDelta, orbitVars, movementYaw, tuneVars, poseVars>>

(* the timeout of the play button: createCity(), then place the character *)
(* and the camera.  With character null the callback throws after          *)
(* createCity() and the camera keeps its pose.                             *)
CreateCityTimeout ==
    /\ playTimers > 0
    /\ playTimers' = playTimers - 1
    /\ Streamed("createCity",
                CreateCityChunks(loadedChunks, cityChildren, disposeCount))
    /\ isInGame' = TRUE
    /\ IF character
       THEN /\ charX' = 0 /\ charZ' = 0
            /\ cameraPosition' =
                   <<0, CHAR_Y + cameraFollowHeight, cameraFollowDistance>>
            /\ controlsTarget' = DesiredTarget(0, 0, cameraFollowHeight)
       ELSE UNCHANGED <<charX, charZ, poseVars>>
    /\ UNCHANGED <<playerReady, character, modelLoads, isPaused, isPointerLocked,
                   lockRequested, skipNextMouseDelta, orbitVars, movementYaw,
                   tuneVars>>

(* back-to-lobby-btn click (the pause menu is on screen while paused) *)
BackToLobbyClick ==
    /\ isPaused
    /\ isPaused' = FALSE
    /\ Streamed("returnToLobby",
                ReturnToLobbyChunks(loadedChunks, cityChildren, disposeCount,
                                    lastChunkX, lastChunkZ))
    /\ IF character THEN charX' = 0 /\ charZ' = 0 ELSE UNCHANGED <<charX, charZ>>
    /\ cameraPosition' = DEFAULT_CAMERA_POS
    /\ controlsTarget' = <<0, PosScale, 0>>
    /\ isInGame' = FALSE
    /\ UNCHANGED <<playerReady, playTimers, character, modelLoads,
                   isPointerLocked, lockRequested, skipNextMouseDelta,
                   orbitVars, movementYaw, tuneVars>>

(* keydown Escape *)
EscapePausesAnywhere(ingame) == TRUE
EscapePauses(ingame) == ingame
EscapeKey ==
    /\ IF EscapePauses(isInGame) THEN isPaused' = TRUE ELSE UNCHANGED isPaused
    /\ Did("escape")
    /\ UNCHANGED <<playerReady, playTimers, character, modelLoads, charX, charZ,
                   streamVars, isInGame, isPointerLocked, lockRequested,
                   skipNextMouseDelta, orbitVars, movementYaw, tuneVars, poseVars>>

(* resume-btn click *)
ResumeClick ==
    /\ isPaused
    /\ isPaused' = FALSE
    /\ lockRequested' = TRUE
    /\ Did("resume")
    /\ UNCHANGED <<playerReady, playTimers, character, modelLoads, charX, charZ,
                   streamVars, isInGame, isPointerLocked, skipNextMouseDelta,
                   orbitVars, movementYaw, tuneVars, poseVars>>

(* canvas click: request pointer lock once the city is active *)
CanvasClick ==
    /\ lockRequested' = (lockRequested \/ isInGame)
    /\ Did("click")
    /\ UNCHANGED <<playerReady, playTimers, character, modelLoads, charX, charZ,
                   streamVars, isInGame, isPaused, isPointerLocked,
                   skipNextMouseDelta, orbitVars, movementYaw, tuneVars, poseVars>>

(* onPointerLockChange: the browser grants a requested lock (locked), or   *)
(* the lock ends (Escape, exitPointerLock(), focus loss)                   *)
AcquireKeepsSkip(skip) == skip
AcquireSetsSkip(skip) == TRUE
onPointerLockChange(locked) ==
    /\ IF locked THEN lockRequested ELSE isPointerLocked
    /\ isPointerLocked' = locked
    /\ IF locked
       THEN /\ isPaused' = FALSE
            /\ skipNextMouseDelta' = AcquireSetsSkip(skipNextMouseDelta)
            /\ lockRequested' = FALSE
       ELSE UNCHANGED <<isPaused, skipNextMouseDelta, lockRequested>>
    /\ Did(IF locked THEN "lock" ELSE "unlock")
    /\ UNCHANGED <<playerReady, playTimers, character, modelLoads, charX, charZ,
                   streamVars, isInGame, orbitVars, movementYaw, tuneVars,
                   poseVars>>

(* mousemove: e.movementX = dx, e.movementY = dy (pixels) *)
ClampDeltaNone(d) == d
ClampDeltaNoMin(d) == Min(MAX_DELTA, d)
ClampDelta(d) == Max(-MAX_DELTA, Min(MAX_DELTA, d))
ClampPitchNoMax(pitch) == Max(minPitch, pitch)
ClampPitch(pitch) == Max(minPitch, Min(maxPitch, pitch))
MouseMoveSkipBeforeLock(dx, dy) ==
    /\ IF skipNextMouseDelta
       THEN skipNextMouseDelta' = FALSE /\ UNCHANGED orbitVars
       ELSE IF ~isPointerLocked
       THEN UNCHANGED <<skipNextMouseDelta, orbitVars>>
       ELSE /\ cameraYaw' = cameraYaw - ClampDelta(dx) * POINTER_SENSITIVITY
            /\ cameraPitch' =
                   ClampPitch(cameraPitch - ClampDelta(dy) * POINTER_SENSITIVITY)
            /\ UNCHANGED skipNextMouseDelta
    /\ Abs(cameraYaw') <= MaxYaw
    /\ DidWith("mousemove", <<dx, dy>>)
    /\ UNCHANGED <<playerReady, playTimers, character, modelLoads, charX, charZ,
                   streamVars, isInGame, isPaused, isPointerLocked, lockRequested,
                   movementYaw, tuneVars, poseVars>>
MouseMoveKeepsSkip(dx, dy) ==
    /\ IF ~isPointerLocked \/ skipNextMouseDelta
       THEN UNCHANGED <<skipNextMouseDelta, orbitVars>>
       ELSE /\ cameraYaw' = cameraYaw - ClampDelta(dx) * POINTER_SENSITIVITY
            /\ cameraPitch' =
                   ClampPitch(cameraPitch - ClampDelta(dy) * POINTER_SENSITIVITY)
            /\ UNCHANGED skipNextMouseDelta
    /\ Abs(cameraYaw') <= MaxYaw
    /\ DidWith("mousemove", <<dx, dy>>)
    /\ UNCHANGED <<playerReady, playTimers, character, modelLoads, charX, charZ,
                   streamVars, isInGame, isPaused, isPointerLocked, lockRequested,
                   movementYaw, tuneVars, poseVars>>
MouseMove(dx, dy) ==
    /\ IF ~isPointerLocked
       THEN UNCHANGED <<skipNextMouseDelta, orbitVars>>
       ELSE IF skipNextMouseDelta
       THEN skipNextMouseDelta' = FALSE /\ UNCHANGED orbitVars
       ELSE /\ cameraYaw' = cameraYaw - ClampDelta(dx) * POINTER_SENSITIVITY
            /\ cameraPitch' =
                   ClampPitch(cameraPitch - ClampDelta(dy) * POINTER_SENSITIVITY)
            /\ UNCHANGED skipNextMouseDelta
    /\ Abs(cameraYaw') <= MaxYaw
    /\ DidWith("mousemove", <<dx, dy>>)
    /\ UNCHANGED <<playerReady, playTimers, character, modelLoads, charX, charZ,
                   streamVars, isInGame, isPaused, isPointerLocked, lockRequested,
                   movementYaw, tuneVars, poseVars>>

(* camera-pitch-slider input: value deg *)
PitchSlider(deg) ==
    /\ cameraPitch' = DegToRad(clampNumber(deg, PITCH_MIN_DEG, PITCH_MAX_DEG))
    /\ DidWith("pitchSlider", <<deg>>)
    /\ UNCHANGED <<playerReady, playTimers, character, modelLoads, charX, charZ,
                   streamVars, isInGame, isPaused, isPointerLocked, lockRequested,
                   skipNextMouseDelta, cameraYaw, movementYaw, tuneVars, poseVars>>

(* camera-cancel-btn click: height, distance and pitch back to defaults *)
CameraCancel ==
    /\ cameraFollowHeight' = DEFAULT_CAMERA_FOLLOW_HEIGHT
    /\ cameraFollowDistance' = DEFAULT_CAMERA_FOLLOW_DISTANCE
    /\ cameraPitch' = DegToRad(CANCEL_PITCH_DEG)
    /\ Did("cameraCancel")
    /\ UNCHANGED <<playerReady, playTimers, character, modelLoads, charX, charZ,
                   streamVars, isInGame, isPaused, isPointerLocked, lockRequested,
                   skipNextMouseDelta, cameraYaw, movementYaw, poseVars>>

(* camera-height-slider and camera-distance-slider input *)
FollowSliders(height, dist) ==
    /\ cameraFollowHeight' = clampNumber(height, 800, 8000)
    /\ cameraFollowDistance' = clampNumber(dist, 4000, 14000)
    /\ Did("followSliders")
    /\ UNCHANGED <<playerReady, playTimers, character, modelLoads, charX, charZ,
                   streamVars, isInGame, isPaused, isPointerLocked, lockRequested,
                   skipNextMouseDelta, orbitVars, movementYaw, poseVars>>

(* animate(): one frame of k/60 s with the keys of `keys` held down; a     *)
(* frame whose clock.getDelta() is zero or negative is tagged frameNoTime. *)
(* Paused, in the lobby or without a character it only renders.  Else      *)
(* updateCharacterMovement(delta): filtered yaw, movement, camera pose,    *)
(* then updateCityStreaming().                                             *)
FrameRunsWhilePaused(paused, ingame, loaded) == loaded /\ ingame
FrameRuns(paused, ingame, loaded) == ~paused /\ loaded /\ ingame
Frame(k, keys) ==
    IF ~FrameRuns(isPaused, isInGame, character)
    THEN /\ Did("idleFrame")
         /\ UNCHANGED <<playerReady, playTimers, character, modelLoads, charX,
                        charZ, streamVars, isInGame, isPaused, isPointerLocked,
                        lockRequested, skipNextMouseDelta, orbitVars,
                        movementYaw, tuneVars, poseVars>>
    ELSE
    \E yaw \in {smoothAngleTowards(movementYaw, cameraYaw, 18)} :
    \E move \in {Movement(keys, yaw, k)} :
    \E alpha \in {SmoothingAlpha(k, isPointerLocked)} :
    \E px \in {charX + move[1]} :
    \E pz \in {charZ + move[2]} :
    \E desiredCameraPos \in
           {DesiredCameraPos(px, pz, cameraYaw, cameraPitch,
                             cameraFollowHeight, cameraFollowDistance)} :
        /\ Abs(px) <= MaxWorld /\ Abs(pz) <= MaxWorld
        /\ movementYaw' = yaw
        /\ charX' = px /\ charZ' = pz
        /\ cameraPosition' = Lerp(cameraPosition, desiredCameraPos, alpha)
        /\ controlsTarget' =
               Lerp(controlsTarget, DesiredTarget(px, pz, cameraFollowHeight),
                    alpha)
        /\ Streamed(IF k > 0 THEN "frame" ELSE "frameNoTime",
                    updateCityStreaming(px, pz, loadedChunks, cityChildren,
                                        disposeCount, lastChunkX, lastChunkZ))
        /\ UNCHANGED <<playerReady, playTimers, character, modelLoads, isInGame,
                       isPaused, isPointerLocked, lockRequested,
                       skipNextMouseDelta, orbitVars, tuneVars>>

-----------------------------------------------------------------------------
(* Spec: the whole program, long frames (16 and 32 world units walked per  *)
(* frame, 48 backwards, 64 and 96 sprinting): the avatar crosses chunks    *)
FrameInputs ==
    {<<192, {}>>, <<192, {"w"}>>, <<192, {"s"}>>, <<192, {"a"}>>, <<192, {"d"}>>,
     <<384, {"w", "shift"}>>, <<384, {"s"}>>, <<384, {"a"}>>,
     <<576, {"s"}>>, <<576, {"w", "shift"}>>}

Next ==
    \/ LoadCharacter
    \/ ReloadModel
    \/ PlayClick
    \/ CreateCityTimeout
    \/ BackToLobbyClick
    \/ EscapeKey
    \/ ResumeClick
    \/ CanvasClick
    \/ \E locked \in BOOLEAN : onPointerLockChange(locked)
    \/ \E in \in FrameInputs : Frame(in[1], in[2])

Spec == Init /\ [][Next]_vars

-----------------------------------------------------------------------------
(* Vocabulary of the properties *)
TileSpan == CHUNK_SIZE * PosScale
Coords == (-8)..8
(* the tile whose half-open span holds the world coordinate x *)
TileOf(x) == CHOOSE c \in Coords : c * TileSpan <= x /\ x < (c + 1) * TileSpan
(* {(x,z) : |x-cx| <= radius and |z-cz| <= radius} *)
Square(cx, cz) ==
    {k \in ((cx - CHUNK_RADIUS)..(cx + CHUNK_RADIUS))
           \X ((cz - CHUNK_RADIUS)..(cz + CHUNK_RADIUS)) :
        Abs(k[1] - cx) <= CHUNK_RADIUS /\ Abs(k[2] - cz) <= CHUNK_RADIUS}
(* the table is the square of the tile c, one of its keys *)
TableCentredAt(c) == DOMAIN loadedChunks = Square(c[1], c[2])
AvatarSquare == Square(TileOf(charX), TileOf(charZ))
SideLength == 2 * CHUNK_RADIUS + 1
(* every tile of the table is undisposed and a child of cityGroup, every  *)
(* child of cityGroup is a tile of the table, one tile per key             *)
TableLive ==
    /\ \A k \in DOMAIN loadedChunks :
          /\ loadedChunks[k].key = k
          /\ loadedChunks[k] \in cityChildren
          /\ disposeCount[loadedChunks[k]] = 0
    /\ \A k1, k2 \in DOMAIN loadedChunks :
          loadedChunks[k1] = loadedChunks[k2] => k1 = k2
    /\ cityChildren \subseteq Range(loadedChunks)

(* C1: right after updateCityStreaming returns, the keys of loadedChunks  *)
(* are exactly the square of radius CHUNK_RADIUS around the avatar's tile, *)
(* and the evicted tiles are already gone from cityGroup (nothing is left  *)
(* for a later tick).                                                      *)
C1_TableIsNeededSet ==
    op = "frame" =>
        /\ DOMAIN loadedChunks = AvatarSquare
        /\ cityChildren = Range(loadedChunks)
        /\ \A t \in DOMAIN dropped : dropped[t] >= 1
C1_Witness ==
    /\ op = "frame" /\ charX < 0
    /\ Cardinality(removed) = SideLength * SideLength
    /\ Cardinality(built) = SideLength * SideLength

(* C2: in every state each key of loadedChunks maps to one undisposed     *)
(* tile that is a child of cityGroup, no two keys share a tile, and no     *)
(* child of cityGroup is missing from the table.                           *)
C2_TableTilesLiveAndAttached == TableLive

(* C3: a second updateCityStreaming at the same avatar position, directly *)
(* after a first, builds nothing, removes nothing and leaves table, scene  *)
(* children and lastChunkX/Z unchanged.                                    *)
C3_ReconcileIdempotent ==
    [][(op = "frame" /\ op' = "frame" /\ charX' = charX /\ charZ' = charZ)
        => /\ built' = {} /\ removed' = {}
           /\ UNCHANGED streamVars]_vars
C3_Witness ==
    /\ op = "frame" /\ built = {} /\ removed = {}
    /\ lastChunkX = Some(TileOf(charX)) /\ lastChunkZ = Some(TileOf(charZ))
    /\ lastChunkX # Some(0)

(* C4: a frame that finds the table equal to the square of a tile c and   *)
(* the avatar in tile c2 builds exactly Square(c2) \ Square(c), removes    *)
(* exactly Square(c) \ Square(c2) and keeps every other tile: same object, *)
(* still undisposed and attached.  From (0,0) to (1,0), the tile of world  *)
(* (40,0): 3 removed, 3 built, 6 kept.                                     *)
C4_ExactDifference ==
    [][op' = "frame" =>
        \A c \in DOMAIN loadedChunks :
            (TableCentredAt(c) /\ TableLive) =>
            LET old == Square(c[1], c[2])
                new == Square(TileOf(charX'), TileOf(charZ'))
            IN  /\ built' = new \ old
                /\ removed' = old \ new
                /\ \A k \in old \cap new :
                      /\ loadedChunks'[k] = loadedChunks[k]
                      /\ disposeCount'[loadedChunks'[k]] = 0
                      /\ loadedChunks'[k] \in cityChildren'
                /\ (c = <<0, 0>> /\ TileOf(charX') = 1 /\ TileOf(charZ') = 0)
                   => /\ removed' = {<<-1, -1>>, <<-1, 0>>, <<-1, 1>>}
                      /\ built' = {<<2, -1>>, <<2, 0>>, <<2, 1>>}
                      /\ Cardinality(old \cap new) = 6
                      /\ worldToChunk(40 * PosScale, 0) = [cx |-> 1, cz |-> 0]
      ]_vars
C4_Witness ==
    /\ op = "frame"
    /\ removed = {<<-1, -1>>, <<-1, 0>>, <<-1, 1>>}
    /\ built = {<<2, -1>>, <<2, 0>>, <<2, 1>>}

(* C5 as claimed: a frame that moves the avatar CHUNK_RADIUS+1 tiles      *)
(* along one axis from the centre of a reconciled table leaves a table of  *)
(* (2*CHUNK_RADIUS+1)^2 entries that shares no entry with the previous     *)
(* table.                                                                  *)
MovedAlongAxis(c, tx, tz, n) ==
    \/ Abs(tx - c[1]) = n /\ tz = c[2]
    \/ Abs(tz - c[2]) = n /\ tx = c[1]
C5_SharesNoEntry ==
    [][op' = "frame" =>
        \A c \in DOMAIN loadedChunks :
            (/\ TableCentredAt(c)
             /\ MovedAlongAxis(c, TileOf(charX'), TileOf(charZ'),
                               CHUNK_RADIUS + 1))
            => /\ Cardinality(DOMAIN loadedChunks') = SideLength * SideLength
               /\ DOMAIN loadedChunks' \cap DOMAIN loadedChunks = {}
      ]_vars
(* C5 amended: such a frame leaves (2*CHUNK_RADIUS+1)^2 entries, none of  *)
(* them outside the new square; the previous tiles outside the new square  *)
(* were disposed, detached and removed, and the two tables share the       *)
(* CHUNK_RADIUS*(2*CHUNK_RADIUS+1) tiles in both squares.                  *)
C5_NoStaleEntry ==
    [][op' = "frame" =>
        \A c \in DOMAIN loadedChunks :
            (/\ TableCentredAt(c) /\ TableLive
             /\ MovedAlongAxis(c, TileOf(charX'), TileOf(charZ'),
                               CHUNK_RADIUS + 1))
            => LET new == Square(TileOf(charX'), TileOf(charZ'))
               IN  /\ Cardinality(DOMAIN loadedChunks') = SideLength * SideLength
                   /\ DOMAIN loadedChunks' = new
                   /\ removed' = Square(c[1], c[2]) \ new
                   /\ \A k \in removed' :
                         /\ loadedChunks[k] \in DOMAIN dropped'
                         /\ dropped'[loadedChunks[k]] = 1
                         /\ loadedChunks[k] \notin cityChildren'
                   /\ Cardinality(DOMAIN loadedChunks' \cap DOMAIN loadedChunks)
                          = CHUNK_RADIUS * SideLength
      ]_vars
C5_Witness ==
    /\ op = "frame"
    /\ Cardinality(removed) = (CHUNK_RADIUS + 1) * SideLength
    /\ \E d \in {-(CHUNK_RADIUS + 1), CHUNK_RADIUS + 1} :
          \/ removed \subseteq Square(TileOf(charX) + d, TileOf(charZ))
          \/ removed \subseteq Square(TileOf(charX), TileOf(charZ) + d)

(* C7: createCity, from any state, disposes and detaches every tile that  *)
(* existed, forgets lastChunkX/Z and leaves exactly the square of          *)
(* CHUNK_RADIUS around tile (0,0), freshly built and attached.             *)
C7_CreateCityResets ==
    [][op' = "createCity" =>
        /\ DOMAIN dropped' = Range(loadedChunks) \cup cityChildren
        /\ \A t \in DOMAIN dropped' : dropped'[t] >= 1
        /\ lastChunkX' = Null /\ lastChunkZ' = Null
        /\ DOMAIN loadedChunks' = Square(0, 0)
        /\ built' = Square(0, 0)
        /\ TableLive'
        /\ isInGame'
      ]_vars
C7_Witness ==
    /\ op = "createCity"
    /\ Cardinality(DOMAIN dropped) = SideLength * SideLength
    /\ isPaused

-----------------------------------------------------------------------------
(* SpecEdge: the avatar strafes along x in frames that walk a whole chunk  *)
(* (384/60 s: 32.000 units) or a little less (383/60 s: 31.917 units), so  *)
(* that it comes to stand just below, exactly on and just above chunk      *)
(* edges on both sides of 0; along z it walks whole chunks.                *)
EdgeInputs ==
    {<<383, {"a"}>>, <<383, {"d"}>>, <<384, {"a"}>>, <<384, {"d"}>>,
     <<384, {"w"}>>, <<384, {"s"}>>}

(* the explored positions stay within EdgeWindow (1/1000 unit) of an edge *)
NearEdge(x) == \E n \in (-8)..8 : Abs(x - n * CHUNK_SIZE * PosScale) <= EdgeWindow
EdgeFrame(k, keys) == Frame(k, keys) /\ NearEdge(charX')

NextEdge ==
    \/ LoadCharacter
    \/ PlayClick
    \/ CreateCityTimeout
    \/ \E in \in EdgeInputs : EdgeFrame(in[1], in[2])

SpecEdge == Init /\ [][NextEdge]_vars

(* n is the tile of the world coordinate x *)
HoldsCoord(n, x) == n * TileSpan <= x /\ x < (n + 1) * TileSpan
(* the column x = col of the square of radius CHUNK_RADIUS around row cz *)
Column(col, cz) == {chunkKey(col, z) : z \in (cz - CHUNK_RADIUS)..(cz + CHUNK_RADIUS)}

(* C6: worldToChunk is floor division, for negative coordinates too: the  *)
(* tile (cx,cz) a frame computes is the only integer pair with             *)
(* cx*size <= x < (cx+1)*size and cz*size <= z < (cz+1)*size; 19.999 with  *)
(* size 20 is in tile 0 and 20.0 in tile 1; a frame that crosses one edge  *)
(* along x from the centre tile of the table removes exactly the column    *)
(* left behind and builds exactly the column ahead.                        *)
C6_FloorDivision ==
    [][op' = "frame" =>
        LET c   == worldToChunk(charX', charZ')
            old == TileOf(charX)
            dir == c.cx - old
        IN  /\ HoldsCoord(c.cx, charX') /\ HoldsCoord(c.cz, charZ')
            /\ \A n \in Coords : HoldsCoord(n, charX') => n = c.cx
            /\ \A n \in Coords : HoldsCoord(n, charZ') => n = c.cz
            /\ lastChunkX' = Some(c.cx) /\ lastChunkZ' = Some(c.cz)
            /\ MathFloorDiv(19999, 20) = 0
            /\ MathFloorDiv(20000, 20) = 1
            /\ MathFloorDiv(-1, 20) = -1
            /\ (/\ TableCentredAt(<<old, TileOf(charZ)>>)
                /\ Abs(dir) = 1 /\ c.cz = TileOf(charZ))
               => /\ removed' = Column(old - dir * CHUNK_RADIUS, c.cz)
                  /\ built' = Column(c.cx + dir * CHUNK_RADIUS, c.cz)
                  /\ DOMAIN loadedChunks' = Square(c.cx, c.cz)
      ]_vars
C6_Witness ==
    /\ op = "frame"
    /\ -PosScale < charX /\ charX < 0
    /\ lastChunkX = Some(-1)
    /\ Cardinality(built) = SideLength /\ Cardinality(removed) = SideLength

-----------------------------------------------------------------------------
(* SpecOrbit: pointer lock, mouse moves and the camera tuning dialog.  No  *)
(* frame runs; mouse deltas are 0, at the cap of 30 pixels and far beyond  *)
(* it; the slider reports values in and out of its range.                  *)
MouseInputs  ==
    {<<0, 0>>, <<30, -30>>, <<-30, 30>>, <<100, 100>>, <<-100, -1000>>,
     <<1000, 1000>>}
SliderValues == {-90, 23, 60, 120}

NextOrbit ==
    \/ PlayClick
    \/ CreateCityTimeout
    \/ CanvasClick
    \/ \E locked \in BOOLEAN : onPointerLockChange(locked)
    \/ \E in \in MouseInputs : MouseMove(in[1], in[2])
    \/ \E deg \in SliderValues : PitchSlider(deg)
    \/ CameraCancel

SpecOrbit == Init /\ [][NextOrbit]_vars

(* C8: in every state cameraPitch lies in [minPitch, maxPitch], whatever   *)
(* dy the mouse moves carry and whatever value the pitch slider reports.   *)
C8_PitchInRange ==
    /\ DegToRad(PITCH_MIN_DEG) <= cameraPitch
    /\ cameraPitch <= DegToRad(PITCH_MAX_DEG)
C8_Witness ==
    /\ op = "mousemove" /\ event[2] = -1000
    /\ cameraPitch = DegToRad(PITCH_MAX_DEG)
    /\ cameraYaw # 0

(* C9: the first mousemove after the pointer lock is acquired leaves       *)
(* cameraYaw and cameraPitch unchanged and clears skipNextMouseDelta; a    *)
(* mousemove under lock with the flag clear moves cameraYaw by the delta   *)
(* capped to +-30 pixels times POINTER_SENSITIVITY, and cameraPitch        *)
(* likewise, kept within the pitch range.                                  *)
Capped(d) == IF d > MAX_DELTA THEN MAX_DELTA
             ELSE IF d < -MAX_DELTA THEN -MAX_DELTA ELSE d
C9_SkipNext ==
    [][op' = "mousemove" =>
        /\ (op = "lock" =>
               /\ UNCHANGED orbitVars
               /\ ~skipNextMouseDelta')
        /\ (isPointerLocked /\ ~skipNextMouseDelta =>
               LET want == cameraPitch - Capped(event'[2]) * POINTER_SENSITIVITY
               IN  /\ cameraYaw' =
                          cameraYaw - Capped(event'[1]) * POINTER_SENSITIVITY
                   /\ cameraPitch' =
                          IF want > maxPitch THEN maxPitch
                          ELSE IF want < minPitch THEN minPitch ELSE want
                   /\ ~skipNextMouseDelta')
      ]_vars
C9_Witness ==
    /\ op = "mousemove" /\ event = <<100, 100>>
    /\ isPointerLocked /\ ~skipNextMouseDelta
    /\ cameraYaw = -(MAX_DELTA * POINTER_SENSITIVITY)
    /\ cameraPitch = DegToRad(DEFAULT_CAMERA_PITCH_DEG)
                        - MAX_DELTA * POINTER_SENSITIVITY

-----------------------------------------------------------------------------
(* SpecCamera: the avatar stands still (no key held) and every frame lasts *)
(* 6/60 s.  Mouse, pointer lock and the tuning dialog act only while the   *)
(* camera is at rest, so that each of them starts one approach of the      *)
(* camera to a new desired pose under constant yaw, pitch and alpha.       *)
CameraFrames == {6}
CameraMouse  == {<<100, 0>>}
CameraPitchValues == {60}
CameraFollowValues == {<<8000, 14000>>}

CameraGoal ==
    DesiredCameraPos(charX, charZ, cameraYaw, cameraPitch,
                     cameraFollowHeight, cameraFollowDistance)
TargetGoal == DesiredTarget(charX, charZ, cameraFollowHeight)
FrameLive == FrameRuns(isPaused, isInGame, character)
(* a frame would change neither the camera pose nor the filtered yaw *)
CameraAtRest ==
    /\ FrameLive
    /\ cameraPosition = CameraGoal
    /\ controlsTarget = TargetGoal
    /\ smoothAngleTowards(movementYaw, cameraYaw, 18) = movementYaw

NextCamera ==
    \/ LoadCharacter
    \/ PlayClick
    \/ CreateCityTimeout
    \/ CameraAtRest /\ CanvasClick
    \/ CameraAtRest /\ \E locked \in BOOLEAN : onPointerLockChange(locked)
    \/ CameraAtRest /\ \E in \in CameraMouse : MouseMove(in[1], in[2])
    \/ CameraAtRest /\ \E deg \in CameraPitchValues : PitchSlider(deg)
    \/ CameraAtRest /\ \E in \in CameraFollowValues : FollowSliders(in[1], in[2])
    \/ CameraAtRest /\ CameraCancel
    \/ \E k \in CameraFrames : Frame(k, {})

SpecCamera == Init /\ [][NextCamera]_vars
(* requestAnimationFrame(animate) schedules the next frame in every frame *)
SpecCameraFair ==
    SpecCamera /\ WF_vars(\E k \in CameraFrames : Frame(k, {}))

(* the step from error e (goal - current) to error f is one smoothing by  *)
(* alpha: f = (1 - alpha) * e up to the rounding of one step, f has the    *)
(* sign of e or is 0, and f is smaller than e unless e is 0                *)
Shrinks(e, f, alpha) ==
    /\ Abs(f * AlphaScale - e * (AlphaScale - alpha)) <= AlphaScale \div 2
    /\ (e >= 0 => f >= 0) /\ (e <= 0 => f <= 0)
    /\ (e # 0 => Abs(f) < Abs(e))
PoseSettled == cameraPosition = CameraGoal /\ controlsTarget = TargetGoal

(* C10: with the avatar, yaw, pitch and frame time constant, every frame   *)
(* multiplies each axis of (desired - camera.position) and of (desired     *)
(* target - controls.target) by 1 - alpha, with 0 < alpha < 1, without     *)
(* change of sign, and while frames keep coming both reach the desired     *)
(* pose to within the resolution of the model.                             *)
C10_SmoothingConverges ==
    /\ [][op' = "frame" =>
            \E k \in CameraFrames :
            \E alpha \in {SmoothingAlpha(k, isPointerLocked)} :
            \E goal \in {CameraGoal} : \E look \in {TargetGoal} :
                /\ 0 < alpha /\ alpha < AlphaScale
                /\ CameraGoal' = goal /\ TargetGoal' = look
                /\ \A i \in 1..3 :
                      /\ Shrinks(goal[i] - cameraPosition[i],
                                 goal[i] - cameraPosition'[i], alpha)
                      /\ Shrinks(look[i] - controlsTarget[i],
                                 look[i] - controlsTarget'[i], alpha)
         ]_vars
    /\ (FrameLive ~> PoseSettled)
C10_Witness ==
    /\ op = "frame" /\ PoseSettled
    /\ cameraYaw # 0 /\ cameraPitch = maxPitch
    /\ cameraFollowDistance # DEFAULT_CAMERA_FOLLOW_DISTANCE
    /\ isPointerLocked

-----------------------------------------------------------------------------
(* SpecReconcile: updateCityStreaming() called with character.position at  *)
(* a given place, finite or not.  A call whose loop never ends leaves the  *)
(* page hung: no handler runs after it.                                    *)
ReconcileInputs ==
    {<<0, 0>>, <<40 * PosScale, 0>>, <<-83, -83>>, <<NaN, 0>>, <<0, NaN>>,
     <<NaN, NaN>>, <<Infinity, 0>>, <<-Infinity, 0>>, <<0, Infinity>>,
     <<NaN, Infinity>>, <<Infinity, NaN>>}

Hung == op = "hang"
ReconcileAt(px, pz) ==
    /\ character /\ isInGame
    /\ charX' = px /\ charZ' = pz
    /\ \E c \in {worldToChunk(px, pz)} :
          IF LoopHangs(c.cx, c.cz)
             /\ ~StreamingEarlyExit(
                     /\ lastChunkX # Null /\ StrictEquals(c.cx, lastChunkX[1])
                     /\ lastChunkZ # Null /\ StrictEquals(c.cz, lastChunkZ[1]),
                     Cardinality(DOMAIN loadedChunks))
          THEN Streamed("hang",
                        updateCityStreamingHang(px, pz, loadedChunks,
                                                cityChildren, disposeCount))
          ELSE Streamed("reconcile",
                        updateCityStreaming(px, pz, loadedChunks, cityChildren,
                                            disposeCount, lastChunkX, lastChunkZ))
    /\ UNCHANGED <<playerReady, playTimers, character, modelLoads, isInGame,
                   isPaused, isPointerLocked, lockRequested, skipNextMouseDelta,
                   orbitVars, movementYaw, tuneVars, poseVars>>

NextReconcile ==
    \/ ~Hung /\ LoadCharacter
    \/ ~Hung /\ PlayClick
    \/ ~Hung /\ CreateCityTimeout
    \/ ~Hung /\ \E in \in ReconcileInputs : ReconcileAt(in[1], in[2])

SpecReconcile == Init /\ [][NextReconcile]_vars

Degenerate(x, z) == ~IsFiniteNumber(x) \/ ~IsFiniteNumber(z)
(* the memo is unset or a whole tile number *)
MemoIsTile(m) == m = Null \/ IsFiniteNumber(m[1])

(* C11: a call of updateCityStreaming with a NaN or infinite coordinate    *)
(* returns, does not empty a non-empty table and leaves lastChunkX and     *)
(* lastChunkZ unset or whole numbers.                                      *)
C11_DegenerateRejected ==
    [][((op' = "reconcile" \/ op' = "hang") /\ Degenerate(charX', charZ')) =>
        /\ op' # "hang"
        /\ (DOMAIN loadedChunks # {} => DOMAIN loadedChunks' # {})
        /\ MemoIsTile(lastChunkX') /\ MemoIsTile(lastChunkZ')
      ]_vars

-----------------------------------------------------------------------------
(* SpecDelta: ordinary frames with the avatar standing, then one frame     *)
(* whose clock.getDelta() is 0 or negative, with and without keys held;    *)
(* after it only a new model load or a new createCity goes on.             *)
DeltaFrames  == {<<6, {}>>}
NoTimeFrames == {<<0, {}>>, <<0, {"w"}>>, <<-6, {"s"}>>, <<-192, {"w"}>>}
DeltaMouse   == {<<100, 0>>}

NextDelta ==
    \/ LoadCharacter
    \/ PlayClick
    \/ CreateCityTimeout
    \/ CameraAtRest /\ CanvasClick
    \/ CameraAtRest /\ onPointerLockChange(TRUE)
    \/ CameraAtRest /\ \E in \in DeltaMouse : MouseMove(in[1], in[2])
    \/ op # "frameNoTime" /\ \E in \in DeltaFrames : Frame(in[1], in[2])
    \/ op # "frameNoTime" /\ \E in \in NoTimeFrames : Frame(in[1], in[2])

SpecDelta == Init /\ [][NextDelta]_vars

(* the step from x to y does not leave the side of goal it was on and     *)
(* does not move away from goal                                            *)
Towards(x, y, goal) ==
    /\ Abs(goal - y) <= Abs(goal - x)
    /\ (x <= goal => y <= goal) /\ (x >= goal => y >= goal)

(* C12: a frame with deltaTime <= 0 uses a factor alpha strictly between   *)
(* 0 and 1 (the exponent is 0.0001 * 60), moves every axis of              *)
(* camera.position and controls.target towards the pose desired for the    *)
(* avatar's position after the frame, never away and never past it, writes *)
(* neither cameraYaw nor cameraPitch and leaves movementYaw a finite       *)
(* number between its old value and cameraYaw.                             *)
C12_NoTimeFrameSafe ==
    [][op' = "frameNoTime" =>
        /\ \A locked \in BOOLEAN : \A k \in {-192, -6, -1, 0} :
              0 < SmoothingAlpha(k, locked) /\ SmoothingAlpha(k, locked) < AlphaScale
        /\ \E goal \in {CameraGoal'} : \E look \in {TargetGoal'} :
              \A i \in 1..3 :
                  /\ Towards(cameraPosition[i], cameraPosition'[i], goal[i])
                  /\ Towards(controlsTarget[i], controlsTarget'[i], look[i])
        /\ UNCHANGED orbitVars
        /\ IsFiniteNumber(cameraYaw') /\ IsFiniteNumber(cameraPitch')
        /\ IsFiniteNumber(movementYaw')
        /\ Towards(movementYaw, movementYaw', cameraYaw)
      ]_vars
C12_Witness ==
    /\ op = "frameNoTime"
    /\ charZ < 0
    /\ cameraYaw # 0 /\ movementYaw # cameraYaw /\ movementYaw # 0
    /\ cameraPosition # CameraGoal

-----------------------------------------------------------------------------
(* C13: every call of updateCityStreaming, wherever character.position     *)
(* is, returns within its frame: its loops end, it builds at most          *)
(* (2 * CHUNK_RADIUS + 1)^2 chunks and removes at most as many chunks as   *)
(* loadedChunks held when it was called.                                   *)
C13_ReconcileReturns ==
    [][(op' = "reconcile" \/ op' = "hang") =>
        /\ ~Hung'
        /\ Cardinality(built') <= SideLength * SideLength
        /\ Cardinality(removed') <= Cardinality(DOMAIN loadedChunks)
      ]_vars

-----------------------------------------------------------------------------
(* SpecPointer: mousemove events arrive at any point between frames while  *)
(* the avatar walks.  A walking frame lasts 192/60 s (alpha is 1), a frame *)
(* right after a mousemove that turned the camera 6/60 s (alpha is about   *)
(* 0.65); after a frame that leaves the camera on its way only a new model *)
(* load or a new createCity goes on.                                       *)
PointerFrames == {<<192, {"w"}>>}
ShortFrames   == {<<6, {}>>}
PointerMouse  == {<<-40, 1000>>, <<0, 0>>}
MidApproach   == op = "frame" /\ cameraPosition # CameraGoal

NextPointer ==
    \/ LoadCharacter
    \/ PlayClick
    \/ CreateCityTimeout
    \/ ~MidApproach /\ CanvasClick
    \/ ~MidApproach /\ \E locked \in BOOLEAN : onPointerLockChange(locked)
    \/ ~MidApproach /\ \E in \in PointerMouse : MouseMove(in[1], in[2])
    \/ ~MidApproach /\ \E in \in PointerFrames : Frame(in[1], in[2])
    \/ /\ op = "mousemove" /\ cameraPosition # CameraGoal
       /\ \E in \in ShortFrames : Frame(in[1], in[2])

SpecPointer == Init /\ [][NextPointer]_vars

(* C14: a mousemove event writes only cameraYaw, cameraPitch and           *)
(* skipNextMouseDelta: loadedChunks, cityGroup's children, lastChunkX and  *)
(* lastChunkZ, character.position, movementYaw, camera.position and        *)
(* controls.target are left as they were, no chunk is built, removed or    *)
(* disposed, and cameraYaw moves by at most MAX_DELTA pixels' worth.       *)
C14_PointerDeltaFrame ==
    [][op' = "mousemove" =>
        /\ UNCHANGED <<streamVars, charX, charZ, movementYaw, poseVars>>
        /\ built' = {} /\ removed' = {} /\ dropped' = NoTiles
        /\ Abs(cameraYaw' - cameraYaw) <= MAX_DELTA * POINTER_SENSITIVITY
        /\ cameraPitch' # cameraPitch => ~skipNextMouseDelta /\ isPointerLocked
        /\ skipNextMouseDelta' # skipNextMouseDelta => ~skipNextMouseDelta'
      ]_vars
C14_Witness ==
    /\ op = "mousemove" /\ event = <<-40, 1000>>
    /\ cameraYaw # 0 /\ cameraPitch # DegToRad(DEFAULT_CAMERA_PITCH_DEG)
    /\ charZ # 0
    /\ cameraPosition # CameraGoal
    /\ DOMAIN loadedChunks # {}

-----------------------------------------------------------------------------
(* C15: in a frame, what updateCityStreaming leaves (the keys of           *)
(* loadedChunks, lastChunkX, lastChunkZ, the chunks kept) is given by      *)
(* character.position and the table before alone, whatever cameraYaw,      *)
(* cameraPitch, movementYaw, camera.position and controls.target are; the  *)
(* new camera.position and controls.target are given by the position, the  *)
(* yaw, pitch, follow settings and the old pose alone, whatever            *)
(* loadedChunks holds; the frame writes neither yaw, pitch nor the follow  *)
(* settings.                                                               *)
C15_StreamerCameraIndependent ==
    [][op' = "frame" =>
        /\ DOMAIN loadedChunks' = AvatarSquare'
        /\ lastChunkX' = Some(TileOf(charX'))
        /\ lastChunkZ' = Some(TileOf(charZ'))
        /\ \A k \in DOMAIN loadedChunks \cap DOMAIN loadedChunks' :
               loadedChunks'[k] = loadedChunks[k]
        /\ removed' = DOMAIN loadedChunks \ AvatarSquare'
        /\ \E in \in PointerFrames \cup ShortFrames :
           \E alpha \in {SmoothingAlpha(in[1], isPointerLocked)} :
               /\ cameraPosition' = Lerp(cameraPosition, CameraGoal', alpha)
               /\ controlsTarget' = Lerp(controlsTarget, TargetGoal', alpha)
        /\ UNCHANGED <<orbitVars, tuneVars>>
      ]_vars
C15_Witness ==
    /\ op = "frame"
    /\ TileOf(charZ) # 0 /\ DOMAIN loadedChunks # InitialKeys
    /\ cameraYaw # 0 /\ cameraPitch # DegToRad(DEFAULT_CAMERA_PITCH_DEG)
    /\ movementYaw # cameraYaw
    /\ cameraPosition # CameraGoal

-----------------------------------------------------------------------------
(* SpecLobby: the lobby with its READY / NOT READY button, play, the pause *)
(* menu's way back to the lobby, and walking frames in between.            *)
LobbyFrames == {<<192, {"w"}>>, <<384, {"s"}>>}

NextLobby ==
    \/ LoadCharacter
    \/ ReadyClick
    \/ PlayClick
    \/ CreateCityTimeout
    \/ EscapeKey
    \/ ResumeClick
    \/ BackToLobbyClick
    \/ \E in \in LobbyFrames : Frame(in[1], in[2])

SpecLobby == Init /\ [][NextLobby]_vars

(* C16: a click on play while playerReady is false sets no timeout for     *)
(* createCity and leaves isInGame, loadedChunks, cityGroup, lastChunkX/Z   *)
(* and character.position as they were; a timeout is only set by a click   *)
(* on play with playerReady true, createCity only runs from such a         *)
(* timeout, and isInGame only becomes true in createCity.                  *)
C16_PlayNeedsReady ==
    [][/\ (op' = "play" /\ ~playerReady) =>
              UNCHANGED <<playTimers, isInGame, streamVars, charX, charZ>>
       /\ playTimers' > playTimers =>
              op' = "play" /\ playerReady /\ playTimers' = playTimers + 1
       /\ op' = "createCity" => playTimers > 0 /\ playTimers' = playTimers - 1
       /\ (isInGame' /\ ~isInGame) => op' = "createCity"
      ]_vars
(* a click on play, not ready, back in the lobby with chunks of the last   *)
(* game still in the table                                                 *)
C16_Witness ==
    /\ op = "play" /\ ~playerReady
    /\ ~isInGame /\ playTimers = 0
    /\ DOMAIN loadedChunks # {} /\ lastChunkZ # Null

-----------------------------------------------------------------------------
(* C17: in a call of updateCityStreaming that does not exit early, when    *)
(* the unload loop starts the table holds every chunk it held at the call  *)
(* and every chunk the call builds, so every key of the square around the  *)
(* avatar is in it; the unload loop removes no key of that square; no key  *)
(* is both built and removed by the call.                                  *)
C17_BuildBeforeRemove ==
    [][op' = "frame" =>
        \E o \in {updateCityStreaming(charX', charZ', loadedChunks, cityChildren,
                                      disposeCount, lastChunkX, lastChunkZ)} :
            /\ loadedChunks' = o.loadedChunks
            /\ built' = o.built /\ removed' = o.removed
            /\ DOMAIN o.mid = DOMAIN loadedChunks \cup built'
            /\ \A k \in DOMAIN loadedChunks : o.mid[k] = loadedChunks[k]
            /\ AvatarSquare' \subseteq DOMAIN o.mid
            /\ DOMAIN loadedChunks' = DOMAIN o.mid \ removed'
            /\ removed' \cap AvatarSquare' = {}
            /\ built' \cap removed' = {}
      ]_vars
C17_Witness ==
    /\ op = "frame"
    /\ Cardinality(built) = CHUNK_RADIUS * SideLength + SideLength
    /\ Cardinality(removed) = Cardinality(built)

-----------------------------------------------------------------------------
(* SpecReentry: games entered, left through the pause menu and entered     *)
(* again, one click on play at a time, so that a createCity that finds     *)
(* chunks in loadedChunks is one that follows a returnToLobby.             *)
ReentryFrames == {<<192, {"w"}>>, <<576, {"s"}>>}

NextReentry ==
    \/ LoadCharacter
    \/ playTimers = 0 /\ PlayClick
    \/ CreateCityTimeout
    \/ EscapeKey
    \/ ResumeClick
    \/ BackToLobbyClick
    \/ \E in \in ReentryFrames : Frame(in[1], in[2])

SpecReentry == Init /\ [][NextReentry]_vars

(* C18: no chunk is disposed twice.  The chunks returnToLobby disposed     *)
(* stay in loadedChunks; createCity on re-entry meets them there, drops    *)
(* them without disposing them again and leaves the same city as a first   *)
(* createCity: nine new undisposed chunks, all children of cityGroup, no   *)
(* lastChunkX/Z.                                                           *)
C18_ReleasedOnce ==
    [][/\ \A t \in DOMAIN disposeCount' : disposeCount'[t] <= 1
       /\ \A t \in DOMAIN dropped' : dropped'[t] <= 1
       /\ op' = "createCity" =>
             /\ \A t \in Range(loadedChunks) :
                    disposeCount[t] = 1 =>
                        t \in DOMAIN dropped' /\ dropped'[t] = 1
             /\ DOMAIN loadedChunks' = InitialKeys
             /\ cityChildren' = Range(loadedChunks')
             /\ \A t \in Range(loadedChunks') : disposeCount'[t] = 0
             /\ lastChunkX' = Null /\ lastChunkZ' = Null
      ]_vars
(* a createCity that found the chunks of the last game in loadedChunks,    *)
(* disposed by returnToLobby                                               *)
C18_Witness ==
    /\ op = "createCity" /\ removed # {} /\ removed # InitialKeys
    /\ DOMAIN dropped # {} /\ \A t \in DOMAIN dropped : dropped[t] = 1

-----------------------------------------------------------------------------
(* the memo is the tile of the avatar's position *)
MemoAt(lx, lz, x, z) == lx = Some(TileOf(x)) /\ lz = Some(TileOf(z))

(* C19: a call of updateCityStreaming at a finite position leaves the      *)
(* table, cityGroup and lastChunkX/Z untouched exactly when lastChunkX/Z   *)
(* is the avatar's tile and the table is not empty; called with an empty   *)
(* table or with lastChunkX/Z unset it builds every missing chunk of the   *)
(* square around the avatar and sets lastChunkX/Z to the avatar's tile.    *)
C19_EarlyExitOnlyWhenSame ==
    [][(op' = "reconcile" /\ ~Degenerate(charX', charZ')) =>
        /\ (UNCHANGED streamVars /\ built' = {} /\ removed' = {})
               <=> (/\ MemoAt(lastChunkX, lastChunkZ, charX', charZ')
                    /\ DOMAIN loadedChunks # {})
        /\ (DOMAIN loadedChunks = {} \/ lastChunkX = Null \/ lastChunkZ = Null)
               => /\ DOMAIN loadedChunks' = AvatarSquare'
                  /\ built' = AvatarSquare' \ DOMAIN loadedChunks
                  /\ MemoAt(lastChunkX', lastChunkZ', charX', charZ')
      ]_vars
(* a call that found the table empty and built the whole square *)
C19_Witness ==
    /\ op = "reconcile" /\ ~Degenerate(charX, charZ)
    /\ built = AvatarSquare /\ removed = {}
    /\ MemoAt(lastChunkX, lastChunkZ, charX, charZ)

-----------------------------------------------------------------------------
(* What a streamer without lastChunkX/Z leaves when it recomputes the      *)
(* square around the avatar in every frame: the table it leaves, the       *)
(* children of cityGroup, the keys it builds and the keys it removes.      *)
RecomputedTable(x, z, tbl, kids) ==
    [k \in Square(TileOf(x), TileOf(z)) |->
        IF k \in DOMAIN tbl THEN tbl[k]
        ELSE buildCityChunk(k, Range(tbl) \cup kids)]
RecomputedChildren(x, z, tbl, kids) ==
    (kids \ {tbl[k] : k \in DOMAIN tbl \ Square(TileOf(x), TileOf(z))})
        \cup {RecomputedTable(x, z, tbl, kids)[k] :
                 k \in Square(TileOf(x), TileOf(z)) \ DOMAIN tbl}

(* C20: whenever a frame's updateCityStreaming exits early, the keys of    *)
(* loadedChunks are already the square around the avatar's tile; in every  *)
(* frame, early exit or not, the table, cityGroup's children, the chunks   *)
(* built and the chunks removed are those of a streamer that recomputes    *)
(* the square every frame; also after createCity, returnToLobby and a new  *)
(* createCity.                                                             *)
C20_EarlyExitSound ==
    [][op' = "frame" =>
        /\ (/\ MemoAt(lastChunkX, lastChunkZ, charX', charZ')
            /\ DOMAIN loadedChunks # {}) => DOMAIN loadedChunks = AvatarSquare'
        /\ loadedChunks' =
               RecomputedTable(charX', charZ', loadedChunks, cityChildren)
        /\ cityChildren' =
               RecomputedChildren(charX', charZ', loadedChunks, cityChildren)
        /\ built' = AvatarSquare' \ DOMAIN loadedChunks
        /\ removed' = DOMAIN loadedChunks \ AvatarSquare'
      ]_vars
(* an early exit away from the origin, the avatar having moved inside its *)
(* tile                                                                    *)
C20_Witness ==
    /\ op = "frame" /\ built = {} /\ removed = {}
    /\ MemoAt(lastChunkX, lastChunkZ, charX, charZ)
    /\ lastChunkZ # Some(0)
    /\ charZ % TileSpan # 0
    /\ DOMAIN loadedChunks = AvatarSquare

-----------------------------------------------------------------------------
(* C21: one mousemove event, whatever movementX and movementY it carries,  *)
(* changes cameraYaw by at most maxDelta * POINTER_SENSITIVITY and         *)
(* cameraPitch by at most as much; an applied event whose movementX is at  *)
(* least maxDelta in magnitude changes cameraYaw by exactly that much.     *)
C21_DeltaCapped ==
    [][op' = "mousemove" =>
        /\ Abs(cameraYaw' - cameraYaw) <= MAX_DELTA * POINTER_SENSITIVITY
        /\ Abs(cameraPitch' - cameraPitch) <= MAX_DELTA * POINTER_SENSITIVITY
        /\ (isPointerLocked /\ ~skipNextMouseDelta
              /\ Abs(event'[1]) >= MAX_DELTA) =>
               Abs(cameraYaw' - cameraYaw) = MAX_DELTA * POINTER_SENSITIVITY
      ]_vars
C21_Witness ==
    /\ op = "mousemove" /\ event = <<-100, -1000>>
    /\ cameraYaw = 2 * MAX_DELTA * POINTER_SENSITIVITY
    /\ cameraPitch = DegToRad(DEFAULT_CAMERA_PITCH_DEG)
                        + 2 * MAX_DELTA * POINTER_SENSITIVITY

-----------------------------------------------------------------------------
(* SpecFloor: the tuning dialog moves pitch, follow height and follow      *)
(* distance over their ranges (slider values outside a range are clamped   *)
(* to it) while the avatar stands; a frame lasts 192/60 s (alpha is 1).    *)
FloorPitchValues  == {-90, -30, -10, 0, 60}
FloorFollowValues == {<<800, 14000>>, <<800, 4000>>, <<8000, 14000>>,
                      <<0, 20000>>}
FloorFrames       == {192}

NextFloor ==
    \/ LoadCharacter
    \/ PlayClick
    \/ CreateCityTimeout
    \/ \E deg \in FloorPitchValues : PitchSlider(deg)
    \/ \E in \in FloorFollowValues : FollowSliders(in[1], in[2])
    \/ CameraCancel
    \/ \E k \in FloorFrames : Frame(k, {})

SpecFloor == Init /\ [][NextFloor]_vars

(* C22: for every pitch, follow height and follow distance the dialog can  *)
(* set, the desired camera position is at least MIN_CAMERA_ABOVE_CHARACTER *)
(* above character.position.y: its offset is the floor when                *)
(* height + distance * sin(pitch) is below the floor and that sum          *)
(* otherwise; the camera itself is never below that height either.         *)
C22_CameraAboveAvatar ==
    /\ minPitch <= cameraPitch /\ cameraPitch <= maxPitch
    /\ \E raw \in {cameraFollowHeight
                     + RoundDiv(cameraFollowDistance * Sin(cameraPitch),
                                TrigScale)} :
           CameraGoal[2] - CHAR_Y =
               (IF raw < MIN_CAMERA_ABOVE_CHARACTER
                THEN MIN_CAMERA_ABOVE_CHARACTER ELSE raw)
    /\ CameraGoal[2] >= CHAR_Y + MIN_CAMERA_ABOVE_CHARACTER
    /\ CameraGoal[2] > CHAR_Y
    /\ cameraPosition[2] >= CHAR_Y + MIN_CAMERA_ABOVE_CHARACTER
(* a frame has brought the camera down to the floor: lowest follow height, *)
(* longest distance, lowest pitch                                          *)
C22_Witness ==
    /\ op = "frame"
    /\ cameraPitch = minPitch
    /\ cameraFollowHeight + RoundDiv(cameraFollowDistance * Sin(cameraPitch),
                                     TrigScale) < 0
    /\ cameraPosition[2] = CHAR_Y + MIN_CAMERA_ABOVE_CHARACTER

-----------------------------------------------------------------------------
(* SpecYaw: a game in progress right after createCity, the pointer locked, *)
(* the avatar standing, cameraYaw turned by earlier mousemove events up to *)
(* more than a full turn away from movementYaw.  Frames follow; the mouse  *)
(* moves again only once movementYaw has caught up.                        *)
TurnedYaws   == {0, 540, 31416, 36000, -47124, 70002}
FilteredYaws == {0, -31416, 1000, 94248}

InitTurned ==
    /\ playerReady = TRUE /\ playTimers = 0
    /\ character = TRUE /\ modelLoads = 0
    /\ charX = 0 /\ charZ = 0
    /\ \E o \in {CreateCityChunks([k \in {} |-> 0], {}, NoTiles)} :
          /\ loadedChunks = o.loadedChunks
          /\ cityChildren = o.cityChildren
          /\ disposeCount = o.disposeCount
    /\ lastChunkX = Null /\ lastChunkZ = Null
    /\ isInGame = TRUE /\ isPaused = FALSE
    /\ isPointerLocked = TRUE /\ lockRequested = FALSE
    /\ skipNextMouseDelta = FALSE
    /\ cameraYaw \in TurnedYaws
    /\ cameraPitch = DegToRad(DEFAULT_CAMERA_PITCH_DEG)
    /\ movementYaw \in FilteredYaws
    /\ cameraFollowHeight = DEFAULT_CAMERA_FOLLOW_HEIGHT
    /\ cameraFollowDistance = DEFAULT_CAMERA_FOLLOW_DISTANCE
    /\ cameraPosition =
           <<0, CHAR_Y + cameraFollowHeight, cameraFollowDistance>>
    /\ controlsTarget = DesiredTarget(0, 0, cameraFollowHeight)
    /\ op = "mousemove" /\ event = <<0, 0>>
    /\ acquisitions = 0
    /\ built = {} /\ removed = {} /\ dropped = NoTiles

YawFrames == {192}
YawMouse  == {<<30, 0>>, <<-30, 0>>}
(* another smoothing step would not move movementYaw *)
YawAtRest == smoothAngleTowards(movementYaw, cameraYaw, 18) = movementYaw

NextYaw ==
    \/ \E k \in YawFrames : Frame(k, {})
    \/ YawAtRest /\ \E in \in YawMouse : MouseMove(in[1], in[2])

SpecYaw == InitTurned /\ [][NextYaw]_vars
SpecYawFair == SpecYaw /\ WF_vars(\E k \in YawFrames : Frame(k, {}))

(* the size of the shortest angular difference between two angles, in     *)
(* 0..PI_A                                                                 *)
ShortestAbs(a, b) ==
    LET m == (b - a) % (2 * PI_A) IN IF m <= PI_A THEN m ELSE 2 * PI_A - m

(* 0.18 times the shortest difference is at most half a unit of the model *)
YawSettled == ShortestAbs(movementYaw, cameraYaw) \in 0..(50 \div 18)

(* C23: a frame leaves cameraYaw alone and moves movementYaw by 0.18 times *)
(* the shortest angular difference to cameraYaw (at most pi in size), in   *)
(* the direction that shortens it: the difference after the frame is the   *)
(* difference before minus the distance moved, never larger than before;   *)
(* while frames keep coming and cameraYaw rests, the difference falls      *)
(* below the resolution of the model.                                      *)
C23_FilteredYawApproaches ==
    /\ [][op' = "frame" =>
            \E d \in {ShortestAbs(movementYaw, cameraYaw)} :
            \E e \in {ShortestAbs(movementYaw', cameraYaw)} :
                /\ UNCHANGED cameraYaw
                /\ d <= PI_A
                /\ e <= d
                /\ Abs(movementYaw' - movementYaw) = d - e
                /\ Abs(100 * (d - e) - 18 * d) <= 50
         ]_vars
    /\ (FrameLive ~> YawSettled)
(* a frame after which movementYaw is numerically more than pi away from   *)
(* cameraYaw: it moved the short way round                                 *)
C23_Witness ==
    /\ op = "frame"
    /\ Abs(cameraYaw - movementYaw) > PI_A
    /\ ShortestAbs(movementYaw, cameraYaw) > 0
    /\ ShortestAbs(movementYaw, cameraYaw) < PI_A \div 2

-----------------------------------------------------------------------------
(* the chunk of the avatar's tile is in loadedChunks, undisposed and a     *)
(* child of cityGroup                                                      *)
AvatarTileCovered ==
    \E k \in {<<TileOf(charX), TileOf(charZ)>>} :
        /\ k \in DOMAIN loadedChunks
        /\ loadedChunks[k] \in cityChildren
        /\ disposeCount[loadedChunks[k]] = 0

(* C24: in game with a character, at the end of every frame, paused or     *)
(* not, and right after createCity, the chunk of the tile that holds       *)
(* character.position is in loadedChunks and attached to cityGroup.        *)
C24_AvatarTileCovered ==
    [][(op' \in {"frame", "idleFrame", "createCity"} /\ isInGame' /\ character')
          => AvatarTileCovered']_vars

-----------------------------------------------------------------------------
(* what updateCharacterMovement and updateCityStreaming write               *)
FrameWritten == <<charX, charZ, loadedChunks, cityChildren, lastChunkX,
                  lastChunkZ, movementYaw, cameraPosition, controlsTarget>>
FrameTags == {"frame", "frameNoTime", "idleFrame"}

(* C25: a frame that runs while paused, in the lobby or without a          *)
(* character leaves character.position, loadedChunks, lastChunkX/Z,        *)
(* movementYaw and the camera pose as they were; a frame that changes one  *)
(* of them ran unpaused, in game, with a character.                        *)
C25_IdleFrameChangesNothing ==
    [][op' \in FrameTags =>
          /\ (isPaused \/ ~isInGame \/ ~character) => UNCHANGED FrameWritten
          /\ (FrameWritten' # FrameWritten) =>
                 (~isPaused /\ isInGame /\ character)
      ]_vars
(* a paused frame in a game, the avatar away from the origin *)
C25_Witness ==
    /\ op \in FrameTags
    /\ isPaused /\ isInGame /\ character
    /\ charZ # 0
    /\ DOMAIN loadedChunks = AvatarSquare

-----------------------------------------------------------------------------
(* C26: in every reachable state isPaused implies isInGame: no sequence of *)
(* Escape, resume, pointer-lock change, Play and back-to-lobby reaches a   *)
(* paused lobby.                                                           *)
C26_PausedOnlyInGame == isPaused => isInGame
(* Escape pressed in the lobby after a game was played and left *)
C26_Witness ==
    /\ op = "escape"
    /\ ~isInGame /\ ~isPaused
    /\ lastChunkX # Null

-----------------------------------------------------------------------------
(* C27: a mousemove while the pointer is not locked changes neither        *)
(* cameraYaw nor cameraPitch and leaves skipNextMouseDelta as it was; the  *)
(* flag goes from set to clear only in a mousemove received while the      *)
(* pointer is locked, and that mousemove does not rotate the camera.       *)
C27_UnlockedMoveIgnored ==
    [][/\ (op' = "mousemove" /\ ~isPointerLocked) =>
              UNCHANGED <<cameraYaw, cameraPitch, skipNextMouseDelta>>
       /\ (skipNextMouseDelta /\ ~skipNextMouseDelta') =>
              /\ op' = "mousemove"
              /\ isPointerLocked
              /\ UNCHANGED <<cameraYaw, cameraPitch>>
      ]_vars
(* the mouse moved after the lock was lost with the flag still set *)
C27_Witness ==
    /\ op = "mousemove"
    /\ event = <<100, 100>>
    /\ ~isPointerLocked
    /\ skipNextMouseDelta

-----------------------------------------------------------------------------
(* C28: a mousemove with a nonzero horizontal delta received under lock is *)
(* discarded (yaw and pitch unchanged) exactly when at least one lock was  *)
(* acquired since the last mousemove received under lock, however many     *)
(* acquisitions that run holds; with none acquired since, it is applied.   *)
C28_OneDiscardPerRun ==
    [][(op' = "mousemove" /\ isPointerLocked /\ Capped(event'[1]) # 0) =>
          /\ acquisitions >= 1 => UNCHANGED <<cameraYaw, cameraPitch>>
          /\ acquisitions = 0 =>
                 cameraYaw' =
                     cameraYaw - Capped(event'[1]) * POINTER_SENSITIVITY
      ]_vars
(* the lock acquired for the second time in a row, the camera turned by    *)
(* an earlier mousemove                                                    *)
C28_Witness ==
    /\ op = "lock"
    /\ acquisitions = MaxAcquisitions
    /\ isPointerLocked /\ skipNextMouseDelta
    /\ cameraYaw # 0

-----------------------------------------------------------------------------
(* (2 * CHUNK_RADIUS + 1)^2, the chunks of one square *)
SquareSize == SideLength * SideLength

(* C29: after every handler loadedChunks holds either no chunk or exactly  *)
(* (2 * CHUNK_RADIUS + 1)^2 chunks; inside updateCityStreaming, between    *)
(* the load loop and the unload loop, it holds what it held at the call    *)
(* and what the call built, never more than twice that number, however     *)
(* far the avatar moved in the frame; createCity builds into a cleared     *)
(* table.                                                                  *)
C29_TableBounded ==
    /\ [](Cardinality(DOMAIN loadedChunks) \in {0, SquareSize})
    /\ [][/\ op' \in {"frame", "frameNoTime"} =>
                \E o \in {updateCityStreaming(charX', charZ', loadedChunks,
                                              cityChildren, disposeCount,
                                              lastChunkX, lastChunkZ)} :
                    /\ loadedChunks' = o.loadedChunks
                    /\ built' = o.built
                    /\ Cardinality(DOMAIN o.mid) =
                           Cardinality(DOMAIN loadedChunks) + Cardinality(built')
                    /\ Cardinality(DOMAIN o.mid) <= 2 * SquareSize
          /\ op' = "createCity" =>
                /\ removed' = DOMAIN loadedChunks
                /\ DOMAIN loadedChunks' = built'
                /\ Cardinality(built') = SquareSize
         ]_vars
(* a frame that moved the avatar so far that the old square and the new    *)
(* one share no chunk: between the loops the table held both               *)
C29_Witness ==
    /\ op = "frame"
    /\ Cardinality(built) = SquareSize
    /\ Cardinality(removed) = SquareSize
    /\ Cardinality(DOMAIN loadedChunks) = SquareSize

-----------------------------------------------------------------------------
(* C30: whatever handler runs, every chunk that leaves loadedChunks (by    *)
(* the unload loop or by loadedChunks.clear()) is by then no child of      *)
(* cityGroup and was disposed exactly once; every chunk left unreferenced  *)
(* was disposed exactly once, and no chunk still referenced was disposed   *)
(* more than once.                                                         *)
C30_ReleasedExactlyOnce ==
    [][/\ \A t \in Range(loadedChunks) \ Range(loadedChunks') :
              /\ t \notin cityChildren'
              /\ t \in DOMAIN dropped'
              /\ dropped'[t] = 1
       /\ \A t \in DOMAIN dropped' : dropped'[t] = 1
       /\ \A t \in DOMAIN disposeCount' : disposeCount'[t] <= 1
      ]_vars
(* createCity cleared a table that held the nine chunks around the origin  *)
C30_Witness ==
    /\ op = "createCity"
    /\ removed = InitialKeys
    /\ Cardinality(DOMAIN dropped) = SquareSize
    /\ \A t \in DOMAIN dropped : dropped[t] = 1

====
